---- MODULE Spec2Model ----
(***************************************************************************)
(* Model of the rlm-pdf-reader skill: RLMPDFReader.process_pdf (skill.py), *)
(* RLMEngine.completion and its helpers (rlm_engine.py) and the source     *)
(* check of PDFProcessor.extract_from_file (pdf_processor.py).             *)
(*                                                                         *)
(* A text is a sequence of segments.  A segment is one syntactic item of   *)
(* the protocol the engine's regular expressions look for: a FINAL(...)    *)
(* call, a ```python fenced block, an llm_query(...) call, plain words,    *)
(* white space, or one of the fixed strings the program itself produces.   *)
(* The reasoning callable (cli_tool) is the environment: every invocation  *)
(* either raises or returns one text of Responses.                         *)
(*                                                                         *)
(* PDFProcessor (pdf_processor.py) is modelled on its own: SpecExtract is  *)
(* one call of extract_from_file with its backends behaving in any way,    *)
(* SpecChunk one call of chunk_document.  There a text is a sequence of    *)
(* characters and offsets are counted from 0 as in the code.               *)
(***************************************************************************)
EXTENDS Integers, Sequences, FiniteSets

VARIABLES
    pc,              \* "idle" | "loop" | "sub" | "returned" | "raised"
    invocation,      \* number of skill_main calls made so far
    rlm_engine,      \* RLMPDFReader.rlm_engine: [created, stats]
    iteration,       \* loop variable of `for iteration in range(max_iterations)`
    user_message,    \* the prompt the next root call sends
    repl_env,        \* repl_code["variables"]: name -> value
    sys_stdout,      \* the process-wide sys.stdout: "orig" | "stringio"
    sub_queries,     \* the queries _execute_sub_queries iterates over
    sub_results,     \* its `results` list so far
    report,          \* what process_pdf returned last
    request,         \* the arguments of the current skill_main call
    observed,        \* what cli_tool and the sandbox saw during this call
    sub_log,         \* per sub-call of this dispatch: the prompt and the outcome
    last,            \* the most recent root call: what it returned, what was done
    chunker,         \* one PDFProcessor.chunk_document call: its locals
    extractor,       \* one PDFProcessor.extract_from_file call: inputs and result
    remote           \* extract_from_url calls in flight, and temp_pdf.pdf

\* the state of the skill and of the loop of completion
loop_vars == <<pc, invocation, rlm_engine, iteration, user_message, repl_env,
               sys_stdout, sub_queries, sub_results, report, request, observed,
               sub_log, last>>

\* the state of the document processor when it is called on its own
processor_vars == <<chunker, extractor, remote>>

vars == <<loop_vars, processor_vars>>

----------------------------------------------------------------------------
(* Bounds of the model *)

\* RLMEngine(max_iterations=...): the skill passes 10; the loop is modelled
\* for a smaller budget.
max_iterations == 2

\* how many times skill_main is called on the one skill instance
MaxInvocations == 2

\* RLMEngine.max_output_length (default, the skill does not override it)
max_output_length == 500000

----------------------------------------------------------------------------
(* Texts *)

None == "None"

Seg(k, form, arg) == [k |-> k, form |-> form, arg |-> arg]

\* FINAL("a") : the quoted form with nothing between the parentheses and quotes
FinalPlain(a) == Seg("final", "plain", a)
\* FINAL( "a" ) : white space or newlines around the quoted argument
FinalSpaced(a) == Seg("final", "spaced", a)
\* ```python\n<code>\n```
CodeBlock(c) == Seg("code", "", c)
\* llm_query("q")
LlmQuery(q) == Seg("query", "", q)
Words == Seg("text", "", "w")
Blank == Seg("ws", "", " ")
\* a fixed string written by the program (f-string literal parts, sentinels)
Lit(s) == Seg("lit", "", s)
\* one value printed by sandboxed code
Printed(v) == Seg("out", "", v)

Answers == {"a", "b"}
\* the bodies of the fenced blocks: "" is the block with an empty body,
\* ```python\n\n```
CodeIds == {"", "set1", "show", "setfail"}
QueryIds == {"q1", "q2"}

ResponseSegs ==
    {FinalPlain("a"), FinalSpaced("b")}
    \cup {CodeBlock(c) : c \in CodeIds}
    \cup {LlmQuery(q) : q \in QueryIds}
    \cup {Words, Blank}

\* what a root invocation of cli_tool can return: "" and every text of one or
\* two segments
Responses ==
    {<<>>} \cup {<<s>> : s \in ResponseSegs}
           \cup {<<s, t>> : s \in ResponseSegs, t \in ResponseSegs}

\* what a sub-call invocation can return: nothing, or text that itself looks
\* like protocol calls
SubResponses == {<<>>, <<FinalPlain("a"), CodeBlock("set1"), LlmQuery("q1")>>}

\* a smaller environment for the runs that call skill_main several times
FewResponses ==
    {<<>>, <<FinalPlain("a")>>, <<CodeBlock("setfail")>>, <<LlmQuery("q1")>>,
     <<Words>>}

\* the exceptions cli_tool can raise (subclasses of Exception), by message
Faults == {"boom"}

\* len(text): segments have different widths
SegLen(s) ==
    CASE s.k = "final" -> 3
      [] s.k = "code"  -> 4
      [] s.k = "query" -> 3
      [] OTHER         -> 1

RECURSIVE TextLen(_)
TextLen(t) == IF t = <<>> THEN 0 ELSE SegLen(Head(t)) + TextLen(Tail(t))

Min(S) == CHOOSE x \in S : \A y \in S : x <= y

----------------------------------------------------------------------------
(* Response parser: rlm_engine.py, _extract_* *)

IsFinal(s) == s.k = "final"
IsPlainFinal(s) == s.k = "final" /\ s.form = "plain"
IsCode(s) == s.k = "code"
IsQuery(s) == s.k = "query"

\* re.search(r'FINAL\(["\']([^"\']+)["\']\)') first, over the whole text; only
\* when it finds nothing, re.search(r'FINAL\(\s*["\'](.+?)["\']\s*\)', DOTALL),
\* which also accepts white space around the quoted argument.
_extract_final_answer(text) ==
    LET plain == {i \in 1..Len(text) : IsPlainFinal(text[i])}
        any == {i \in 1..Len(text) : IsFinal(text[i])}
    IN  IF plain # {} THEN text[Min(plain)].arg
        ELSE IF any # {} THEN text[Min(any)].arg
        ELSE None

\* re.search(r'```python\n(.*?)\n```', DOTALL): the body of the first block
_extract_python_code(text) ==
    LET blocks == {i \in 1..Len(text) : IsCode(text[i])}
    IN  IF blocks # {} THEN text[Min(blocks)].arg ELSE None

RECURSIVE _extract_llm_queries(_)
_extract_llm_queries(text) ==
    IF text = <<>> THEN <<>>
    ELSE IF IsQuery(Head(text))
    THEN <<Head(text).arg>> \o _extract_llm_queries(Tail(text))
    ELSE _extract_llm_queries(Tail(text))

\* Python truthiness of an Optional[str]: None and "" are false
Truthy(v) == v # None /\ v # ""

\* variant: only `not response`, without the strip() test
IsEmptyResponse_no_strip(response) == response = <<>>

\* `not response or response.strip() == ""`
IsEmptyResponse(response) ==
    \A i \in 1..Len(response) : response[i].k = "ws"

\* variant: the llm_query calls are looked for before the FINAL call
Branch_queries_first(response) ==
    IF _extract_llm_queries(response) # <<>> THEN "sub"
    ELSE IF Truthy(_extract_final_answer(response)) THEN "final"
    ELSE IF Truthy(_extract_python_code(response)) THEN "code"
    ELSE "continue"

\* the branch of the if/elif chain of completion (lines 133-171) a non-empty
\* response takes
Branch(response) ==
    IF Truthy(_extract_final_answer(response)) THEN "final"
    ELSE IF Truthy(_extract_python_code(response)) THEN "code"
    ELSE IF _extract_llm_queries(response) # <<>> THEN "sub"
    ELSE "continue"

----------------------------------------------------------------------------
(* Execution sandbox: rlm_engine.py, _init_repl and _execute_repl_code *)

Unbound == "unbound"
VarNames == {"x"}

\* _init_repl: "variables": {}
_init_repl == [v \in VarNames |-> Unbound]

Stmt(op, var, val) == [op |-> op, var |-> var, val |-> val]

\* the code of each fenced block
Program(code) ==
    CASE code = "set1"    -> <<Stmt("set", "x", "1")>>                 \* x = 1
      [] code = "show"    -> <<Stmt("print", "x", "")>>                \* print(x)
      [] code = "setfail" -> <<Stmt("set", "x", "2"), Stmt("raise", "", "")>>
      [] OTHER            -> <<>>

\* exec(code, exec_globals, repl_env["variables"]): top-level assignments go
\* to the variables mapping itself, statement by statement; a fault stops the
\* run and leaves the assignments made before it
RECURSIVE exec(_, _, _)
exec(stmts, variables, out) ==
    IF stmts = <<>> THEN [variables |-> variables, out |-> out, error |-> ""]
    ELSE LET st == Head(stmts) IN
         CASE st.op = "set" ->
                exec(Tail(stmts), [variables EXCEPT ![st.var] = st.val], out)
           [] st.op = "print" ->
                IF variables[st.var] = Unbound
                THEN [variables |-> variables, out |-> out,
                      error |-> "name 'x' is not defined"]
                ELSE exec(Tail(stmts), variables,
                          Append(out, Printed(variables[st.var])))
           [] OTHER ->
                [variables |-> variables, out |-> out, error |-> "raised"]

\* variant: the assignments of a block that raised are thrown away
_execute_repl_code_rollback(code, variables, stdout) ==
    LET r == exec(Program(code), variables, <<>>) IN
    IF r.error = ""
    THEN [text |-> IF r.out # <<>> THEN r.out
                   ELSE <<Lit("<code executed successfully, no output>")>>,
          variables |-> r.variables,
          sys_stdout |-> stdout]
    ELSE [text |-> <<Lit("<execution error: "), Lit(r.error), Lit(">")>>,
          variables |-> variables,
          sys_stdout |-> "stringio"]

\* variant: `return output`, without the sentinel for an empty capture
_execute_repl_code_no_sentinel(code, variables, stdout) ==
    LET r == exec(Program(code), variables, <<>>) IN
    IF r.error = ""
    THEN [text |-> r.out,
          variables |-> r.variables,
          sys_stdout |-> stdout]
    ELSE [text |-> <<Lit("<execution error: "), Lit(r.error), Lit(">")>>,
          variables |-> r.variables,
          sys_stdout |-> "stringio"]

\* _execute_repl_code: sys.stdout is replaced by a StringIO; it is put back
\* (line 225) only when exec returns; the except clause (line 229) returns the
\* fault text and leaves sys.stdout as it is
_execute_repl_code(code, variables, stdout) ==
    LET r == exec(Program(code), variables, <<>>) IN
    IF r.error = ""
    THEN [text |-> IF r.out # <<>> THEN r.out
                   ELSE <<Lit("<code executed successfully, no output>")>>,
          variables |-> r.variables,
          sys_stdout |-> stdout]
    ELSE [text |-> <<Lit("<execution error: "), Lit(r.error), Lit(">")>>,
          variables |-> r.variables,
          sys_stdout |-> "stringio"]

\* text[:n]
Slice(text, n) == SubSeq(text, 1, IF Len(text) < n THEN Len(text) ELSE n)

----------------------------------------------------------------------------
(* Prompts: the f-strings of completion *)

InitialPrompt == <<Lit("You are operating in a Recursive Language Model (RLM) environment.")>>

\* lines 148-151
ReplPrompt(exec_result) ==
    <<Lit("REPL output from your code:")>>
    \o Slice(exec_result, max_output_length)
    \o <<Lit("Continue your analysis. Remember to use FINAL(answer) when done.")>>

\* lines 158-161: "\n\n".join(f"Sub-query {i+1} result:\n{r}")
ResultLabel == <<"Sub-query 1 result:", "Sub-query 2 result:",
                 "Sub-query 3 result:", "Sub-query 4 result:">>

RECURSIVE JoinResults(_, _)
JoinResults(results, i) ==
    IF i > Len(results) THEN <<>>
    ELSE <<Lit(ResultLabel[i])>> \o results[i] \o JoinResults(results, i + 1)

\* lines 163-167
SubPrompt(results) ==
    <<Lit("Parallel sub-LLM results:")>>
    \o JoinResults(results, 1)
    \o <<Lit("Use these results to continue your analysis. Call FINAL(answer) when ready.")>>

\* line 176
ErrorPrompt(e) ==
    <<Lit("Error occurred: "), Lit(e), Lit("Please retry or adjust your approach.")>>

----------------------------------------------------------------------------
(* Statistics: rlm_engine.py, RLMStats *)

RLMStats == [root_calls |-> 0, sub_calls |-> 0, root_tokens |-> 0,
             sub_tokens |-> 0, iterations |-> 0]

to_dict(st) ==
    [root_calls |-> st.root_calls,
     sub_calls |-> st.sub_calls,
     total_calls |-> st.root_calls + st.sub_calls,
     root_tokens |-> st.root_tokens,
     sub_tokens |-> st.sub_tokens,
     total_tokens |-> st.root_tokens + st.sub_tokens,
     iterations |-> st.iterations]

----------------------------------------------------------------------------
(* Text extraction as far as process_pdf depends on it: pdf_processor.py *)

\* the files that exist and the URLs that answer
ExistingFiles == {"doc.pdf"}
ReachableUrls == {"https://host/doc.pdf"}
Sources == {"doc.pdf", "gone.pdf", "https://host/doc.pdf", "http://down/doc.pdf"}

\* pdf_path.startswith('http://') or pdf_path.startswith('https://')
IsUrl(pdf_path) == pdf_path \in {"https://host/doc.pdf", "http://down/doc.pdf"}

\* extract_from_file: FileNotFoundError when the path does not exist, else a
\* document
extract_from_file(pdf_path) ==
    IF pdf_path \notin ExistingFiles
    THEN [ok |-> FALSE, exc |-> "PDF file not found"]
    ELSE [ok |-> TRUE, exc |-> ""]

\* extract_from_url: requests.get / raise_for_status raise when the URL does
\* not answer, else the download is written to temp_pdf.pdf and extracted
extract_from_url(url) ==
    IF url \notin ReachableUrls
    THEN [ok |-> FALSE, exc |-> "ConnectionError"]
    ELSE [ok |-> TRUE, exc |-> ""]

\* skill.py lines 66-69
Extract(pdf_path) ==
    IF IsUrl(pdf_path) THEN extract_from_url(pdf_path)
    ELSE extract_from_file(pdf_path)

----------------------------------------------------------------------------
(* Reports: the strings process_pdf returns *)

NoReport == [head |-> "", body |-> "", stats |-> <<>>]

\* skill.py line 58
NoCliReport ==
    [head |-> "Error: cli_tool is required for RLM operation", body |-> "",
     stats |-> <<>>]

\* skill.py lines 82-102
BuildReport(answer, st) ==
    IF Truthy(answer)
    THEN [head |-> "# RLM Analysis Result", body |-> answer,
          stats |-> <<to_dict(st)>>]
    ELSE [head |-> "RLM analysis did not converge within max iterations.",
          body |-> "", stats |-> <<>>]

\* variant: process_pdf has no except clause; the fault reaches the caller
process_pdf_except_missing(e) ==
    [pc |-> "raised", report |-> NoReport]

\* skill.py lines 104-105: except Exception as e: return f"Error processing..."
process_pdf_except(e) ==
    [pc |-> "returned",
     report |-> [head |-> "Error processing PDF: ", body |-> e, stats |-> <<>>]]

\* variant: the loop body has no except clause; the fault leaves completion
completion_except_missing(e) ==
    [caught |-> FALSE, user_message |-> <<>>]

\* rlm_engine.py lines 173-176: the except clause of the loop body
completion_except(e) ==
    [caught |-> TRUE, user_message |-> ErrorPrompt(e)]

\* rlm_engine.py line 258
sub_query_result(results, response) ==
    Append(results, IF response # <<>> THEN response ELSE <<Lit("<no response>")>>)

\* variant: a raising sub-call leaves no entry in the results
sub_query_except_dropped(results, e) == results

\* rlm_engine.py lines 261-262
sub_query_except(results, e) ==
    Append(results, <<Lit("<error: "), Lit(e), Lit(">")>>)

\* variant: the loop runs one pass too many (range(max_iterations + 1))
InRange_one_more(i) == i < max_iterations + 1

\* for iteration in range(max_iterations)
InRange(i) == i < max_iterations

----------------------------------------------------------------------------
(* Observations: what a run of the loop looked like from the outside *)

\* root: root calls; root_finals: those whose response held a FINAL call;
\* root_faults: those that raised; sub: sub-calls; exec: sandbox runs;
\* sub_len: the lengths of the texts the sub-calls returned, added up
NoCalls == [root |-> 0, sub |-> 0, exec |-> 0, root_faults |-> 0, root_finals |-> 0,
            sub_len |-> 0]

\* first_final: the argument of the FINAL call that stands first in the text;
\* code: the first code block of the text; len: the length of the text
NoLast == [ret |-> "none", has_final |-> FALSE, finals |-> {}, has_code |-> FALSE,
           n_queries |-> 0, blank |-> FALSE, acted |-> "none",
           first_final |-> "", code |-> "", len |-> 0]

\* 1 when the text holds a FINAL call of either form, else 0
HasFinal(response) ==
    IF \E i \in 1..Len(response) : response[i].k = "final" THEN 1 ELSE 0

\* a root call that raised
SawFault ==
    [NoLast EXCEPT !.ret = "fault", !.acted = "fault"]

\* a root call that returned `response`, after which the loop did `acted`
Saw(response, acted) ==
    [ret |-> "text",
     has_final |-> \E i \in 1..Len(response) : response[i].k = "final",
     finals |-> {response[i].arg : i \in {j \in 1..Len(response) : response[j].k = "final"}},
     has_code |-> \E i \in 1..Len(response) : response[i].k = "code",
     n_queries |-> Cardinality({i \in 1..Len(response) : response[i].k = "query"}),
     blank |-> \A i \in 1..Len(response) : response[i].k = "ws",
     acted |-> acted,
     first_final |->
        LET at == {i \in 1..Len(response) : response[i].k = "final"}
        IN  IF at = {} THEN "" ELSE response[Min(at)].arg,
     code |->
        LET at == {i \in 1..Len(response) : response[i].k = "code"}
        IN  IF at = {} THEN "" ELSE response[Min(at)].arg,
     len |-> TextLen(response)]

----------------------------------------------------------------------------
(* State machine *)

InitLoop ==
    /\ pc = "idle"
    /\ invocation = 0
    /\ rlm_engine = [created |-> FALSE, stats |-> RLMStats]
    /\ iteration = 0
    /\ user_message = <<>>
    /\ repl_env = _init_repl
    /\ sys_stdout = "orig"
    /\ sub_queries = <<>>
    /\ sub_results = <<>>
    /\ report = NoReport
    /\ request = [source |-> "", cli_tool |-> FALSE, fresh |-> FALSE, entered |-> FALSE]
    /\ observed = NoCalls
    /\ sub_log = <<>>
    /\ last = NoLast

\* nothing has been asked of the document processor
ChunkerIdle == [pc |-> "idle"]
ExtractorIdle == [pc |-> "idle"]
RemoteIdle == [pc |-> "idle"]

Init ==
    /\ InitLoop
    /\ chunker = ChunkerIdle
    /\ extractor = ExtractorIdle
    /\ remote = RemoteIdle

\* skill_main is called when no call is running; `limit` bounds the calls
CanCall(limit) == pc \in {"idle", "returned"} /\ invocation < limit

\* skill_main -> get_skill -> process_pdf with cli_tool=None (skill.py 57-58)
SkillMainNoCli(pdf_path, limit) ==
    /\ CanCall(limit)
    /\ invocation' = invocation + 1
    /\ request' = [source |-> pdf_path, cli_tool |-> FALSE, fresh |-> FALSE,
                   entered |-> FALSE]
    /\ observed' = NoCalls
    /\ last' = NoLast
    /\ pc' = "returned"
    /\ report' = NoCliReport
    /\ UNCHANGED <<rlm_engine, iteration, user_message, repl_env, sys_stdout,
                   sub_queries, sub_results, sub_log>>
    /\ UNCHANGED processor_vars

\* initialize() when self.rlm_engine is None (skill.py 62-63)
Initialized(engine) ==
    IF engine.created THEN engine ELSE [created |-> TRUE, stats |-> RLMStats]

\* process_pdf when the extraction raises (skill.py 60-69, 104-105)
SkillMainInputError(pdf_path, limit) ==
    /\ CanCall(limit)
    /\ ~Extract(pdf_path).ok
    /\ invocation' = invocation + 1
    /\ request' = [source |-> pdf_path, cli_tool |-> TRUE,
                   fresh |-> ~rlm_engine.created, entered |-> FALSE]
    /\ observed' = NoCalls
    /\ last' = NoLast
    /\ rlm_engine' = Initialized(rlm_engine)
    /\ pc' = process_pdf_except(Extract(pdf_path).exc).pc
    /\ report' = process_pdf_except(Extract(pdf_path).exc).report
    /\ UNCHANGED <<iteration, user_message, repl_env, sys_stdout,
                   sub_queries, sub_results, sub_log>>
    /\ UNCHANGED processor_vars

\* process_pdf up to the first root call: extraction, _init_repl, the initial
\* prompt, self.stats.iterations = 0 (skill.py 60-79, rlm_engine.py 75-111)
SkillMainStart(pdf_path, limit) ==
    /\ CanCall(limit)
    /\ Extract(pdf_path).ok
    /\ invocation' = invocation + 1
    /\ request' = [source |-> pdf_path, cli_tool |-> TRUE,
                   fresh |-> ~rlm_engine.created, entered |-> TRUE]
    /\ observed' = NoCalls
    /\ last' = NoLast
    /\ repl_env' = _init_repl
    /\ user_message' = InitialPrompt
    /\ iteration' = 0
    /\ sub_queries' = <<>>
    /\ sub_results' = <<>>
    /\ sub_log' = <<>>
    /\ LET st == [Initialized(rlm_engine).stats EXCEPT !.iterations = 0] IN
       /\ rlm_engine' = [created |-> TRUE, stats |-> st]
       /\ IF InRange(0)
          THEN pc' = "loop" /\ report' = NoReport
          ELSE pc' = "returned" /\ report' = BuildReport(None, st)
    /\ UNCHANGED sys_stdout
    /\ UNCHANGED processor_vars

\* variant: the root-call counter is not advanced
Counted_iterations_only(st) == [st EXCEPT !.iterations = @ + 1]

\* lines 112-113
Counted(st) == [st EXCEPT !.iterations = @ + 1, !.root_calls = @ + 1]

\* the end of one pass of the loop body: the next pass, or `return None` and
\* the rest of process_pdf when the range is used up
EndIteration(st, msg) ==
    /\ rlm_engine' = [rlm_engine EXCEPT !.stats = st]
    /\ user_message' = msg
    /\ iteration' = iteration + 1
    /\ IF InRange(iteration + 1)
       THEN pc' = "loop" /\ report' = report
       ELSE pc' = "returned" /\ report' = BuildReport(None, st)

\* `return final_answer` (line 137) and the rest of process_pdf
Converge(st, answer) ==
    /\ rlm_engine' = [rlm_engine EXCEPT !.stats = st]
    /\ pc' = "returned"
    /\ report' = BuildReport(answer, st)
    /\ UNCHANGED <<user_message, iteration>>

\* the root call raises (lines 119-123, 173-176)
RootFault(e) ==
    /\ pc = "loop"
    /\ observed' = [observed EXCEPT !.root = @ + 1, !.root_faults = @ + 1]
    /\ last' = SawFault
    /\ sub_queries' = <<>> /\ sub_results' = <<>> /\ sub_log' = <<>>
    /\ IF completion_except(e).caught
       THEN EndIteration(Counted(rlm_engine.stats), completion_except(e).user_message)
       ELSE /\ rlm_engine' = [rlm_engine EXCEPT !.stats = Counted(@)]
            /\ pc' = process_pdf_except(e).pc
            /\ report' = process_pdf_except(e).report
            /\ UNCHANGED <<user_message, iteration>>
    /\ UNCHANGED <<invocation, repl_env, sys_stdout, request>>
    /\ UNCHANGED processor_vars

\* the root call returns nothing or white space (lines 125-128)
RootEmpty(response) ==
    /\ pc = "loop"
    /\ IsEmptyResponse(response)
    /\ observed' = [observed EXCEPT !.root = @ + 1,
                                 !.root_finals = @ + HasFinal(response)]
    /\ last' = Saw(response, "empty")
    /\ sub_queries' = <<>> /\ sub_results' = <<>> /\ sub_log' = <<>>
    /\ EndIteration(Counted(rlm_engine.stats), user_message)
    /\ UNCHANGED <<invocation, repl_env, sys_stdout, request>>
    /\ UNCHANGED processor_vars

\* the response holds a FINAL call (lines 132-137)
RootFinal(response) ==
    /\ pc = "loop"
    /\ ~IsEmptyResponse(response)
    /\ Branch(response) = "final"
    /\ observed' = [observed EXCEPT !.root = @ + 1,
                                 !.root_finals = @ + HasFinal(response)]
    /\ last' = Saw(response, "final")
    /\ sub_queries' = <<>> /\ sub_results' = <<>> /\ sub_log' = <<>>
    /\ Converge(Counted(rlm_engine.stats), _extract_final_answer(response))
    /\ UNCHANGED <<invocation, repl_env, sys_stdout, request>>
    /\ UNCHANGED processor_vars

\* the response holds code to run (lines 139-151)
RootCode(response) ==
    /\ pc = "loop"
    /\ ~IsEmptyResponse(response)
    /\ Branch(response) = "code"
    /\ observed' = [observed EXCEPT !.root = @ + 1, !.exec = @ + 1,
                                 !.root_finals = @ + HasFinal(response)]
    /\ last' = Saw(response, "code")
    /\ sub_queries' = <<>> /\ sub_results' = <<>> /\ sub_log' = <<>>
    /\ LET r == _execute_repl_code(_extract_python_code(response), repl_env,
                                   sys_stdout) IN
       /\ repl_env' = r.variables
       /\ sys_stdout' = r.sys_stdout
       /\ EndIteration(Counted(rlm_engine.stats), ReplPrompt(r.text))
    /\ UNCHANGED <<invocation, request>>
    /\ UNCHANGED processor_vars

\* the response holds llm_query calls: enter _execute_sub_queries (153-155)
RootSubQueries(response) ==
    /\ pc = "loop"
    /\ ~IsEmptyResponse(response)
    /\ Branch(response) = "sub"
    /\ observed' = [observed EXCEPT !.root = @ + 1,
                                 !.root_finals = @ + HasFinal(response)]
    /\ last' = Saw(response, "sub")
    /\ sub_queries' = _extract_llm_queries(response)
    /\ sub_results' = <<>>
    /\ sub_log' = <<>>
    /\ rlm_engine' = [rlm_engine EXCEPT !.stats = Counted(@)]
    /\ pc' = "sub"
    /\ UNCHANGED <<invocation, iteration, user_message, repl_env, sys_stdout,
                   report, request>>
    /\ UNCHANGED processor_vars

\* none of the patterns: the response is the next prompt (lines 169-171)
RootContinue(response) ==
    /\ pc = "loop"
    /\ ~IsEmptyResponse(response)
    /\ Branch(response) = "continue"
    /\ observed' = [observed EXCEPT !.root = @ + 1,
                                 !.root_finals = @ + HasFinal(response)]
    /\ last' = Saw(response, "continue")
    /\ sub_queries' = <<>> /\ sub_results' = <<>> /\ sub_log' = <<>>
    /\ EndIteration(Counted(rlm_engine.stats), response)
    /\ UNCHANGED <<invocation, repl_env, sys_stdout, request>>
    /\ UNCHANGED processor_vars

\* variant: the results are searched for a FINAL call, and one ends the run
EndDispatch_parsed(st, results) ==
    LET finals == {i \in 1..Len(results) : _extract_final_answer(results[i]) # None} IN
    IF finals # {}
    THEN Converge([st EXCEPT !.sub_calls = @ + Len(sub_queries)],
                  _extract_final_answer(results[Min(finals)]))
    ELSE EndIteration([st EXCEPT !.sub_calls = @ + Len(sub_queries)], SubPrompt(results))

\* variant: the dispatch counts as one sub-call however many queries it had
EndDispatch_once(st, results) ==
    EndIteration([st EXCEPT !.sub_calls = @ + 1], SubPrompt(results))

\* after the last sub-call: lines 156-167
EndDispatch(st, results) ==
    EndIteration([st EXCEPT !.sub_calls = @ + Len(sub_queries)], SubPrompt(results))

\* one pass of the loop of _execute_sub_queries whose call returns (241-259)
SubReturn(response) ==
    /\ pc = "sub"
    /\ observed' = [observed EXCEPT !.sub = @ + 1, !.sub_len = @ + TextLen(response)]
    /\ sub_log' = Append(sub_log, [query |-> sub_queries[Len(sub_log) + 1],
                                   fault |-> FALSE, response |-> response])
    /\ sub_results' = sub_query_result(sub_results, response)
    /\ LET st == [rlm_engine.stats EXCEPT !.sub_tokens = @ + TextLen(response)] IN
       IF Len(sub_log) + 1 < Len(sub_queries)
       THEN /\ rlm_engine' = [rlm_engine EXCEPT !.stats = st]
            /\ UNCHANGED <<pc, iteration, user_message, report>>
       ELSE EndDispatch(st, sub_results')
    /\ UNCHANGED <<invocation, repl_env, sys_stdout, sub_queries, request, last>>
    /\ UNCHANGED processor_vars

\* one pass of the loop of _execute_sub_queries whose call raises (261-262)
SubFault(e) ==
    /\ pc = "sub"
    /\ observed' = [observed EXCEPT !.sub = @ + 1]
    /\ sub_log' = Append(sub_log, [query |-> sub_queries[Len(sub_log) + 1],
                                   fault |-> TRUE, response |-> <<>>])
    /\ sub_results' = sub_query_except(sub_results, e)
    /\ IF Len(sub_log) + 1 < Len(sub_queries)
       THEN UNCHANGED <<rlm_engine, pc, iteration, user_message, report>>
       ELSE EndDispatch(rlm_engine.stats, sub_results')
    /\ UNCHANGED <<invocation, repl_env, sys_stdout, sub_queries, request, last>>
    /\ UNCHANGED processor_vars

\* one step of the program, with the callable answering root calls from R
Step(R, limit) ==
    \/ \E p \in Sources : SkillMainNoCli(p, limit)
    \/ \E p \in Sources : SkillMainInputError(p, limit)
    \/ \E p \in Sources : SkillMainStart(p, limit)
    \/ \E e \in Faults : RootFault(e)
    \/ \E r \in R : RootEmpty(r)
    \/ \E r \in R : RootFinal(r)
    \/ \E r \in R : RootCode(r)
    \/ \E r \in R : RootSubQueries(r)
    \/ \E r \in R : RootContinue(r)
    \/ \E r \in SubResponses : SubReturn(r)
    \/ \E e \in Faults : SubFault(e)

\* one call of skill_main, the callable answering with any text of Responses
Next == Step(Responses, 1)

Spec == Init /\ [][Next]_vars

\* several calls of skill_main on the one skill instance
NextSkill == Step(FewResponses, MaxInvocations)

SpecSkill == Init /\ [][NextSkill]_vars

----------------------------------------------------------------------------
(* Text extraction with its fallbacks: pdf_processor.py, extract_from_file *)

\* the most pages a document of the model has
MaxPages == 2

\* page.get_text() / page.extract_text(): a text, or a fault
PageTexts == {<<>>, <<Blank>>, <<Words>>}
PageOutcomes ==
    {[fault |-> TRUE, text |-> <<>>]}
    \cup {[fault |-> FALSE, text |-> t] : t \in PageTexts}

RECURSIVE SeqsUpTo(_, _)
SeqsUpTo(S, n) ==
    IF n = 0 THEN {<<>>}
    ELSE SeqsUpTo(S, n - 1)
         \cup {Append(q, x) : q \in {r \in SeqsUpTo(S, n - 1) : Len(r) = n - 1},
                              x \in S}

\* what a backend does with the file: the import fails with ImportError, or
\* opening the file raises, or it opens and hands out the pages
Backends ==
    {[imported |-> FALSE, opened |-> FALSE, pages |-> <<>>],
     [imported |-> TRUE, opened |-> FALSE, pages |-> <<>>]}
    \cup {[imported |-> TRUE, opened |-> TRUE, pages |-> q] :
             q \in SeqsUpTo(PageOutcomes, MaxPages)}

\* f"--- Page {page_num + 1} ---\n"
PageHeader(n) == Lit(<<"--- Page 1 ---", "--- Page 2 ---", "--- Page 3 ---">>[n])

\* text.strip() is truthy
HasText(text) == \E i \in 1..Len(text) : text[i].k # "ws"

\* the loop over the pages and "\n\n".join(text_parts) (lines 138-147 and
\* 163-170); the page number counts the skipped pages too
RECURSIVE JoinPages(_, _, _)
JoinPages(pages, n, joined) ==
    IF n > Len(pages) THEN joined
    ELSE IF HasText(pages[n].text)
    THEN JoinPages(pages, n + 1,
                   (IF joined = <<>> THEN <<>> ELSE joined \o <<Lit("\n\n")>>)
                   \o <<PageHeader(n)>> \o pages[n].text)
    ELSE JoinPages(pages, n + 1, joined)

\* the two backends have the same shape: "" on ImportError, "" on any fault
\* of opening or of a page (except Exception), else the joined page texts
ExtractWith(b) ==
    IF ~b.imported THEN <<>>
    ELSE IF ~b.opened \/ \E i \in 1..Len(b.pages) : b.pages[i].fault THEN <<>>
    ELSE JoinPages(b.pages, 1, <<>>)

_extract_with_pymupdf(b) == ExtractWith(b)
_extract_with_pypdf2(b) == ExtractWith(b)

\* variant: the placeholder is the empty string
_extract_basic_empty(name) == <<>>

\* lines 176-180
_extract_basic(name) ==
    <<Lit("[Could not extract text from "), Lit(name),
      Lit(". Please install PyMuPDF or PyPDF2.]")>>

\* Path(pdf_path).stem
Stem(pdf_path) ==
    CASE pdf_path = "doc.pdf"      -> "doc"
      [] pdf_path = "temp_pdf.pdf" -> "temp_pdf"
      [] OTHER                     -> "gone"

\* the PDFDocument of lines 78-83, without total_pages and metadata
PDFDocument(pdf_path, content) == [title |-> Stem(pdf_path), content |-> content]
NoDocument == [title |-> "", content |-> <<>>]

\* a call of extract_from_file(pdf_path) about to run; tried, fitz and pypdf2
\* record which backends ran and what they did
ExtractorCalled(pdf_path) ==
    [pc |-> "call", pdf_path |-> pdf_path, tried |-> <<>>,
     fitz |-> <<>>, pypdf2 |-> <<>>, document |-> NoDocument]

\* lines 68-69: the path does not exist
ExtractMissingFile ==
    /\ extractor.pc = "call"
    /\ extractor.pdf_path \notin ExistingFiles
    /\ extractor' = [extractor EXCEPT !.pc = "raised"]
    /\ UNCHANGED <<loop_vars, chunker, remote>>

\* lines 72-73: the first backend; its text is returned when it is not empty
ExtractWithPyMuPDF(b) ==
    /\ extractor.pc = "call"
    /\ extractor.pdf_path \in ExistingFiles
    /\ LET content == _extract_with_pymupdf(b) IN
       extractor' =
          [extractor EXCEPT
             !.tried = <<"pymupdf">>,
             !.fitz = <<b>>,
             !.pc = IF content # <<>> THEN "returned" ELSE "pypdf2",
             !.document = IF content # <<>>
                          THEN PDFDocument(extractor.pdf_path, content)
                          ELSE @]
    /\ UNCHANGED <<loop_vars, chunker, remote>>

\* lines 74-83: the second backend, and the placeholder when it has no text
ExtractWithPyPDF2(b) ==
    /\ extractor.pc = "pypdf2"
    /\ LET content == _extract_with_pypdf2(b) IN
       extractor' =
          [extractor EXCEPT
             !.tried = IF content # <<>> THEN @ \o <<"pypdf2">>
                       ELSE @ \o <<"pypdf2", "basic">>,
             !.pypdf2 = <<b>>,
             !.pc = "returned",
             !.document =
                PDFDocument(extractor.pdf_path,
                            IF content # <<>> THEN content
                            ELSE _extract_basic(extractor.pdf_path))]
    /\ UNCHANGED <<loop_vars, chunker, remote>>

InitExtract ==
    /\ InitLoop
    /\ chunker = ChunkerIdle
    /\ extractor \in {ExtractorCalled(p) : p \in {"doc.pdf", "gone.pdf"}}
    /\ remote = RemoteIdle

NextExtract ==
    \/ ExtractMissingFile
    \/ \E b \in Backends : ExtractWithPyMuPDF(b)
    \/ \E b \in Backends : ExtractWithPyPDF2(b)

\* one call of extract_from_file, the backends behaving in any way
SpecExtract == InitExtract /\ [][NextExtract]_vars

----------------------------------------------------------------------------
(* Strings of characters: the str operations chunking uses. A text is a
   sequence of one-character strings; offsets are Python's, from 0. *)

Max(S) == CHOOSE x \in S : \A y \in S : x >= y

\* the characters of the model's documents, by the classes the code tells apart
Whitespace == {" ", "\n"}      \* \s, and what strip() removes
Upper == {"A", "I"}            \* [A-Z]
RomanDigits == {"I"}           \* [IVX]
Digits == {"1"}                \* \d

\* content[i]
Ch(content, i) == content[i + 1]

\* how a slice bound is read: negative bounds count from the end, and bounds
\* outside the text are clipped
SliceBound(i, n) ==
    IF i < 0 THEN (IF n + i < 0 THEN 0 ELSE n + i)
    ELSE IF i > n THEN n ELSE i

\* content[i:j]
PySlice(content, i, j) ==
    LET a == SliceBound(i, Len(content))
        b == SliceBound(j, Len(content))
    IN  IF a < b THEN SubSeq(content, a + 1, b) ELSE <<>>

\* content.rfind(sub, i, j): the highest offset in content[i:j] where sub
\* lies wholly inside the slice, or -1
rfind(content, sub, i, j) ==
    LET a == SliceBound(i, Len(content))
        b == SliceBound(j, Len(content))
        hits == {k \in a..(b - Len(sub)) :
                    SubSeq(content, k + 1, k + Len(sub)) = sub}
    IN  IF hits = {} THEN -1 ELSE Max(hits)

\* text.strip()
strip(text) ==
    LET keep == {k \in 1..Len(text) : text[k] \notin Whitespace}
    IN  IF keep = {} THEN <<>> ELSE SubSeq(text, Min(keep), Max(keep))

\* the offset where the run of characters of class C that starts at q ends
RunEnd(content, q, C) ==
    Min({r \in q..Len(content) : r = Len(content) \/ Ch(content, r) \notin C})

\* the offset of the first newline at or after r, or len(content)
LineEnd(content, r) ==
    Min({t \in r..Len(content) : t = Len(content) \/ Ch(content, t) = "\n"})

----------------------------------------------------------------------------
(* Section headers: the four patterns of _chunk_by_sections, each matched
   with re.MULTILINE. Every matcher gives the offset where the match ends,
   or -1. *)

NoMatch == -1

\* \s+.+?\n from offset r0: the white space is taken greedily (newlines
\* too) and given back until one character that is no newline and then the
\* rest of its line up to a newline follow
TitleEnd(content, r0) ==
    LET n == Len(content)
        w == RunEnd(content, r0, Whitespace)
        ok == {r \in (r0 + 1)..w :
                 /\ r < n
                 /\ Ch(content, r) # "\n"
                 /\ LineEnd(content, r + 1) < n}
    IN  IF ok = {} THEN NoMatch ELSE LineEnd(content, Max(ok) + 1) + 1

\* #{1,3}\s+.+?\n
MarkdownEnd(content, q) ==
    LET h == RunEnd(content, q, {"#"}) - q
    IN  IF h >= 1 /\ h <= 3 THEN TitleEnd(content, q + h) ELSE NoMatch

\* \d+\.\s+.+?\n and [IVX]+\.\s+.+?\n
NumberedEnd(content, q, C) ==
    LET d == RunEnd(content, q, C)
    IN  IF d > q /\ d < Len(content) /\ Ch(content, d) = "."
        THEN TitleEnd(content, d + 1) ELSE NoMatch

\* [A-Z][A-Z\s]{5,}\n: the class is taken greedily, newlines too, and given
\* back to the last newline that has five or more characters before it
CapsEnd(content, q) ==
    IF Ch(content, q) \notin Upper THEN NoMatch
    ELSE LET r == RunEnd(content, q + 1, Upper \cup Whitespace)
             nl == {t \in (q + 6)..(r - 1) : Ch(content, t) = "\n"}
         IN  IF nl = {} THEN NoMatch ELSE Max(nl) + 1

section_patterns == <<"markdown", "caps", "numbered", "roman">>

HeaderEnd(content, pattern, q) ==
    IF q >= Len(content) THEN NoMatch
    ELSE CASE pattern = "markdown" -> MarkdownEnd(content, q)
           [] pattern = "caps"     -> CapsEnd(content, q)
           [] pattern = "numbered" -> NumberedEnd(content, q, Digits)
           [] OTHER                -> NumberedEnd(content, q, RomanDigits)

\* ^ with re.MULTILINE
LineStart(content, p) == p = 0 \/ content[p] = "\n"

\* ^\n?(header)\n tried at offset p: first with the optional newline taken,
\* then without it
MatchEnd(content, pattern, p) ==
    IF ~LineStart(content, p) THEN NoMatch
    ELSE IF Ch(content, p) = "\n" /\ HeaderEnd(content, pattern, p + 1) # NoMatch
    THEN HeaderEnd(content, pattern, p + 1)
    ELSE HeaderEnd(content, pattern, p)

\* re.finditer: the matches from left to right, each search starting where
\* the match before it ended; the set of their match.start()
RECURSIVE Starts(_, _, _, _)
Starts(content, pattern, candidates, from) ==
    IF candidates = {} THEN {}
    ELSE LET p == Min(candidates) IN
         IF p >= from
         THEN {p} \cup Starts(content, pattern, candidates \ {p},
                              MatchEnd(content, pattern, p))
         ELSE Starts(content, pattern, candidates \ {p}, from)

finditer(content, pattern) ==
    Starts(content, pattern,
           {p \in 0..(Len(content) - 1) : MatchEnd(content, pattern, p) # NoMatch},
           0)

\* sorted(...)
RECURSIVE sorted(_)
sorted(S) ==
    IF S = {} THEN <<>> ELSE <<Min(S)>> \o sorted(S \ {Min(S)})

\* lines 196-202
Boundaries(content) ==
    Append(sorted({0} \cup UNION {finditer(content, section_patterns[i]) : i \in 1..4}),
           Len(content))

----------------------------------------------------------------------------
(* Chunking: pdf_processor.py, chunk_document *)

\* the most window passes of _chunk_by_size the model follows
MaxSteps == 10
\* the most parts a document of the model is made of
MaxParts == 2

\* the look-ahead of the two rfind calls (lines 235 and 240)
LookAhead == 200
\* `len(chunk_content) > 100` (lines 211 and 246)
MinChunk == 100

\* n letters
Run(n) == [i \in 1..n |-> "a"]

\* the parts of a document: a markdown header line, a body line of 96 and of
\* 97 letters, a sentence, and a paragraph
Header == <<"#", " ", "a", "\n">>
Body96 == Run(96) \o <<"\n">>
Body97 == Run(97) \o <<"\n">>
Sentence == Run(70) \o <<".", " ">>
Paragraph == Run(70) \o <<"\n", "\n">>
Parts == {Header, Body96, Body97, Sentence, Paragraph}

RECURSIVE Flatten(_)
Flatten(q) == IF q = <<>> THEN <<>> ELSE Head(q) \o Flatten(Tail(q))

\* longer documents: with a header of each of the other kinds; with white
\* space around a body of exactly 100 letters; with a blank line before a
\* header and a line of four # signs; with a sentence and with a paragraph
\* ahead of two body lines; with one and with two sections under headers
OtherDocuments ==
    {<<"A", "A", "A", " ", "A", "A", "\n">> \o Body97 \o <<"1", ".", " ", "a", "\n">>
        \o Body97 \o <<"I", "I", ".", " ", "a", "\n">> \o Body97,
     <<" ">> \o Run(100) \o <<"\n">>,
     Body97 \o <<"\n">> \o Header \o Body97 \o <<"#", "#", "#", "#", " ", "a", "\n">>
        \o Body97,
     Sentence \o Body96 \o Body96,
     Paragraph \o Body96 \o Body96,
     Header \o Body97 \o Header,
     Header \o Body96 \o Header \o Body96,
     Header \o Body97 \o Header \o Body97}

Documents == {Flatten(q) : q \in SeqsUpTo(Parts, MaxParts)} \cup OtherDocuments

\* PDFProcessor(chunk_size, overlap): the defaults of __init__, and two
\* small processors, the second with an overlap above half the chunk size
Processors ==
    {[chunk_size |-> 10000, overlap |-> 500],
     [chunk_size |-> 120, overlap |-> 20],
     [chunk_size |-> 120, overlap |-> 71]}

\* the PDFChunk of lines 212-217
SectionChunk(chunk_content, i) ==
    [content |-> chunk_content, start_page |-> i + 1, end_page |-> i + 1,
     metadata |-> [method |-> "section"]]

\* the PDFChunk of lines 247-252
SizeChunk(chunk_content, chunk_num, start, end) ==
    [content |-> chunk_content, start_page |-> chunk_num + 1,
     end_page |-> chunk_num + 1,
     metadata |-> [method |-> "size", char_start |-> start, char_end |-> end]]

\* `len(chunk_content) > 100`
Kept(chunk_content) == Len(chunk_content) > MinChunk

\* the slices between the boundaries (lines 206-209), kept or not
Slices(content) ==
    LET b == Boundaries(content) IN
    IF Len(b) > 2
    THEN [i \in 1..(Len(b) - 1) |->
            [start |-> b[i], end |-> b[i + 1],
             chunk_content |-> strip(PySlice(content, b[i], b[i + 1]))]]
    ELSE <<>>

\* the loop of lines 206-217 from slice i on
RECURSIVE SectionChunksFrom(_, _)
SectionChunksFrom(slices, i) ==
    IF i > Len(slices) THEN <<>>
    ELSE (IF Kept(slices[i].chunk_content)
          THEN <<SectionChunk(slices[i].chunk_content, i - 1)>> ELSE <<>>)
         \o SectionChunksFrom(slices, i + 1)

_chunk_by_sections(content) == SectionChunksFrom(Slices(content), 1)

\* lines 230-242: where the window that starts at `start` ends
WindowEnd(content, start, chunk_size) ==
    LET end == start + chunk_size
        sentence_end == rfind(content, <<".">>, start, end + LookAhead)
        para_end == rfind(content, <<"\n", "\n">>, start, end + LookAhead)
    IN  IF end < Len(content)
        THEN IF sentence_end > start + (chunk_size \div 2) THEN sentence_end + 1
             ELSE IF para_end > start + (chunk_size \div 2) THEN para_end + 2
             ELSE end
        ELSE end

\* variant: the next window starts where this one ended
NextStart_no_overlap(end, overlap) == end

\* line 255
NextStart(end, overlap) == end - overlap

\* variant: one section chunk is enough
AcceptSections_one(section_chunks) == Len(section_chunks) > 0

\* line 123
AcceptSections(section_chunks) == Len(section_chunks) > 1

\* a call of chunk_document(document) on PDFProcessor(chunk_size, overlap)
\* about to run. slices and windows record every slice the section pass and
\* the window passes looked at: its span, the length of its trimmed content
\* and whether it became a chunk; steps counts the window passes.
ChunkerCalled(content, processor) ==
    [pc |-> "call", content |-> content,
     chunk_size |-> processor.chunk_size, overlap |-> processor.overlap,
     section_chunks |-> <<>>, start |-> 0, chunk_num |-> 0, chunks |-> <<>>,
     result |-> <<>>, slices |-> <<>>, windows |-> <<>>, steps |-> 0]

\* chunk_document up to the first pass of the while loop of _chunk_by_size:
\* the section chunks are returned when there are enough of them (lines
\* 122-124); else start = 0 and the loop is entered, or left at once when the
\* text is empty (lines 226-229, 257)
ChunkDocument ==
    /\ chunker.pc = "call"
    /\ LET section_chunks == _chunk_by_sections(chunker.content)
           seen == [i \in 1..Len(Slices(chunker.content)) |->
                      LET sl == Slices(chunker.content)[i] IN
                      [start |-> sl.start, end |-> sl.end,
                       trimmed |-> Len(sl.chunk_content),
                       kept |-> \E j \in 1..Len(section_chunks) :
                                   /\ section_chunks[j].start_page = i
                                   /\ section_chunks[j].content = sl.chunk_content]]
       IN  chunker' =
             [chunker EXCEPT
                !.section_chunks = section_chunks,
                !.slices = seen,
                !.pc = IF AcceptSections(section_chunks) THEN "done"
                       ELSE IF 0 < Len(chunker.content) THEN "size"
                       ELSE "done",
                !.result = IF AcceptSections(section_chunks)
                           THEN section_chunks ELSE <<>>]
    /\ UNCHANGED <<loop_vars, extractor, remote>>

\* one pass of the while loop of _chunk_by_size (lines 229-255), and the
\* return of the chunks when the loop condition fails after it (line 257)
WindowPass ==
    /\ chunker.pc = "size"
    /\ chunker.steps < MaxSteps
    /\ LET start == chunker.start
           end == WindowEnd(chunker.content, start, chunker.chunk_size)
           chunk_content == strip(PySlice(chunker.content, start, end))
           chunks == IF Kept(chunk_content)
                     THEN Append(chunker.chunks,
                                 SizeChunk(chunk_content, chunker.chunk_num, start, end))
                     ELSE chunker.chunks
           next == NextStart(end, chunker.overlap)
       IN  chunker' =
             [chunker EXCEPT
                !.chunks = chunks,
                !.chunk_num = IF Kept(chunk_content) THEN @ + 1 ELSE @,
                !.start = next,
                !.steps = @ + 1,
                !.windows = Append(@, [start |-> start, end |-> end,
                                       trimmed |-> Len(chunk_content),
                                       kept |-> Len(chunks) > Len(chunker.chunks)]),
                !.pc = IF next < Len(chunker.content) THEN "size" ELSE "done",
                !.result = IF next < Len(chunker.content) THEN @ ELSE chunks]
    /\ UNCHANGED <<loop_vars, extractor, remote>>

InitChunk ==
    /\ InitLoop
    /\ extractor = ExtractorIdle
    /\ chunker \in {ChunkerCalled(d, p) : d \in Documents, p \in Processors}
    /\ remote = RemoteIdle

NextChunk ==
    \/ ChunkDocument
    \/ WindowPass

\* one call of chunk_document, on any document and processor of the model
SpecChunk == InitChunk /\ [][NextChunk]_vars

----------------------------------------------------------------------------
(* Remote extraction by several callers at once: pdf_processor.py,
   extract_from_url. Every caller runs the same code on the same working
   directory; a step is one access to the network or to the file system. *)

\* the number of extract_from_url calls in flight
MaxCallers == 2
Callers == 1..MaxCallers

\* Path("temp_pdf.pdf") (line 101): one path for every call
temp_path == "temp_pdf.pdf"

\* the file does not exist; the file exists and holds no bytes
NoFile == "absent"
EmptyFile == "empty"

\* response.content of the URL caller c asks for: a PDF of one page
BytesOf(c) == <<"pdf-1", "pdf-2", "pdf-3">>[c]

\* what a backend that is installed makes of the file at temp_path: opening
\* raises when the file is not there or holds nothing, else it reads the page
\* the bytes hold
BackendOn(file) ==
    [imported |-> TRUE, opened |-> file \notin {NoFile, EmptyFile},
     pages |-> IF file \in {NoFile, EmptyFile} THEN <<>>
               ELSE <<[fault |-> FALSE, text |-> <<Seg("text", "", file)>>]>>]

\* every caller's call of extract_from_url about to run, temp_pdf.pdf not
\* there yet
RemoteCalled ==
    [pc |-> "run", file |-> NoFile,
     calls |-> [c \in Callers |->
                  [pc |-> "get", fetched |-> "", fd |-> "none", exc |-> "",
                   document |-> NoDocument]]]

\* the call of caller c goes to pc, with its other fields changed as in `with`
Goto(c, with) == remote' = [remote EXCEPT !.calls[c] = with]

\* lines 97-98: requests.get and raise_for_status; they raise, or the bytes
\* are there
Get(c, ok) ==
    /\ remote.pc = "run"
    /\ remote.calls[c].pc = "get"
    /\ IF ok
       THEN Goto(c, [remote.calls[c] EXCEPT !.pc = "open", !.fetched = BytesOf(c)])
       ELSE Goto(c, [remote.calls[c] EXCEPT !.pc = "raised", !.exc = "HTTPError"])
    /\ UNCHANGED <<loop_vars, chunker, extractor>>

\* line 102, temp_path.write_bytes(response.content), first half: open(mode
\* 'wb') creates the file or cuts it to no bytes
OpenForWrite(c) ==
    /\ remote.pc = "run"
    /\ remote.calls[c].pc = "open"
    /\ remote' = [remote EXCEPT !.file = EmptyFile,
                                !.calls[c].pc = "write",
                                !.calls[c].fd = "open"]
    /\ UNCHANGED <<loop_vars, chunker, extractor>>

\* line 102, second half: the bytes are written and the file is closed; they
\* go to the file that was opened, which another call may have unlinked from
\* temp_path since
WriteBytes(c) ==
    /\ remote.pc = "run"
    /\ remote.calls[c].pc = "write"
    /\ remote' = [remote EXCEPT
                    !.file = IF remote.calls[c].fd = "open"
                             THEN remote.calls[c].fetched ELSE @,
                    !.calls[c].pc = "exists",
                    !.calls[c].fd = "none"]
    /\ UNCHANGED <<loop_vars, chunker, extractor>>

\* lines 105, 68-69: extract_from_file tests pdf_path.exists() and raises
\* FileNotFoundError, which the finally clause lets through after its unlink
CheckExists(c) ==
    /\ remote.pc = "run"
    /\ remote.calls[c].pc = "exists"
    /\ IF remote.file # NoFile
       THEN Goto(c, [remote.calls[c] EXCEPT !.pc = "pymupdf"])
       ELSE Goto(c, [remote.calls[c] EXCEPT !.pc = "unlink",
                                            !.exc = "FileNotFoundError"])
    /\ UNCHANGED <<loop_vars, chunker, extractor>>

\* lines 72-73: the first backend opens and reads the file
ReadWithPyMuPDF(c) ==
    /\ remote.pc = "run"
    /\ remote.calls[c].pc = "pymupdf"
    /\ LET content == _extract_with_pymupdf(BackendOn(remote.file)) IN
       IF content # <<>>
       THEN Goto(c, [remote.calls[c] EXCEPT !.pc = "unlink",
                                            !.document = PDFDocument(temp_path, content)])
       ELSE Goto(c, [remote.calls[c] EXCEPT !.pc = "pypdf2"])
    /\ UNCHANGED <<loop_vars, chunker, extractor>>

\* lines 74-83: the second backend, and the placeholder when it has no text
ReadWithPyPDF2(c) ==
    /\ remote.pc = "run"
    /\ remote.calls[c].pc = "pypdf2"
    /\ LET content == _extract_with_pypdf2(BackendOn(remote.file)) IN
       Goto(c, [remote.calls[c] EXCEPT
                   !.pc = "unlink",
                   !.document = PDFDocument(temp_path,
                                            IF content # <<>> THEN content
                                            ELSE _extract_basic(temp_path))])
    /\ UNCHANGED <<loop_vars, chunker, extractor>>

\* lines 106-107: finally: temp_path.unlink(missing_ok=True); then the
\* document is returned or the fault goes on to the caller
Unlink(c) ==
    /\ remote.pc = "run"
    /\ remote.calls[c].pc = "unlink"
    /\ remote' =
          [remote EXCEPT
             !.file = NoFile,
             !.calls = [d \in Callers |->
                          IF d = c
                          THEN [remote.calls[d] EXCEPT
                                  !.pc = IF remote.calls[c].exc # "" THEN "raised"
                                         ELSE "returned"]
                          ELSE [remote.calls[d] EXCEPT
                                  !.fd = IF @ = "open" THEN "detached" ELSE @]]]
    /\ UNCHANGED <<loop_vars, chunker, extractor>>

InitRemote ==
    /\ InitLoop
    /\ chunker = ChunkerIdle
    /\ extractor = ExtractorIdle
    /\ remote = RemoteCalled

NextRemote ==
    \/ \E c \in Callers, ok \in BOOLEAN : Get(c, ok)
    \/ \E c \in Callers : OpenForWrite(c)
    \/ \E c \in Callers : WriteBytes(c)
    \/ \E c \in Callers : CheckExists(c)
    \/ \E c \in Callers : ReadWithPyMuPDF(c)
    \/ \E c \in Callers : ReadWithPyPDF2(c)
    \/ \E c \in Callers : Unlink(c)

\* the extract_from_url calls of all callers, their steps in any order
SpecRemote == InitRemote /\ [][NextRemote]_vars

----------------------------------------------------------------------------
(* Properties *)

ResultHead == "# RLM Analysis Result"
NoConvergenceHead == "RLM analysis did not converge within max iterations."

\* the step is a root call
RootStep == observed'.root = observed.root + 1

\* C1: a run in which no root response held a FINAL call makes exactly
\* max_iterations root calls (never more while it runs), ends without an
\* answer, and process_pdf returns the "did not converge" report.
C1_NoFinalExhausts ==
    (request.entered /\ observed.root_finals = 0) =>
        /\ observed.root <= max_iterations
        /\ pc = "loop" => observed.root < max_iterations
        /\ pc = "returned" =>
              /\ observed.root = max_iterations
              /\ rlm_engine.stats.iterations = max_iterations
              /\ report.head = NoConvergenceHead
              /\ report.body = ""

\* C1 witness: such a run has ended after a sandbox run and a sub-query
\* dispatch.
C1_Witness ==
    /\ pc = "returned" /\ request.entered /\ observed.root_finals = 0
    /\ observed.root = max_iterations
    /\ observed.exec > 0 /\ observed.sub > 0
    /\ report.head = NoConvergenceHead

\* C2: on an engine created by this call, a first root response holding a
\* FINAL call ends the run at once: the answer is that call's text, the report
\* shows iterations = 1, root calls = 1, sub-calls = 0, no sandbox run and no
\* sub-call happened; and after any root response holding a FINAL call no
\* further root call is made.
C2_FirstFinalConverges ==
    /\ (request.entered /\ observed.root_finals > 0) =>
          /\ pc = "returned"
          /\ last.has_final
          /\ observed.root_finals = 1
    /\ (request.entered /\ request.fresh /\ observed.root = 1 /\ last.has_final) =>
          /\ pc = "returned"
          /\ report.head = ResultHead
          /\ report.body \in last.finals
          /\ Len(report.stats) = 1
          /\ report.stats[1].iterations = 1
          /\ report.stats[1].root_calls = 1
          /\ report.stats[1].sub_calls = 0
          /\ observed.sub = 0
          /\ observed.exec = 0

\* C2 witness: a call that created the engine has returned after one root call
\* whose response held FINAL.
C2_Witness ==
    /\ pc = "returned" /\ request.entered /\ request.fresh
    /\ observed.root = 1 /\ last.has_final
    /\ report.body = "a"

\* C3: a root response holding both a FINAL call and llm_query calls makes
\* the run converge with the FINAL text; no sub-call is dispatched and the
\* sub-call counter keeps its value.
C3_FinalBeatsSubQueries ==
    [][(RootStep /\ last'.has_final /\ last'.n_queries > 0) =>
          /\ pc' = "returned"
          /\ last'.acted = "final"
          /\ report'.head = ResultHead
          /\ report'.body \in last'.finals
          /\ sub_queries' = <<>>
          /\ observed'.sub = observed.sub
          /\ rlm_engine'.stats.sub_calls = rlm_engine.stats.sub_calls]_vars

\* C3 witness: the run has converged on a response that held both.
C3_Witness ==
    /\ pc = "returned" /\ last.has_final /\ last.n_queries > 0
    /\ report.head = ResultHead

\* C4 (as claimed): a root response without FINAL that holds a python block
\* and llm_query calls has its code run, and no sub-call is dispatched.
C4_CodeBeatsSubQueries ==
    (last.ret = "text" /\ ~last.has_final /\ last.has_code /\ last.n_queries > 0) =>
        /\ last.acted = "code"
        /\ pc # "sub"
        /\ sub_log = <<>>

\* the error marker and the placeholder of _execute_sub_queries
IsErrorMarker(result) == Len(result) > 0 /\ result[1] = Lit("<error: ")
NoResponseMarker == <<Lit("<no response>")>>

\* a dispatch has been completed and the loop has gone on
DispatchDone == last.acted = "sub" /\ pc # "sub"

\* C5 (as claimed): after a dispatch of n prompts there are n sub-calls, one
\* per prompt in order, and n results; the slot of a raising sub-call holds an
\* error marker, every other slot holds that sub-call's response; the next
\* prompt is built from the results.
C5_SlotsHoldResponses ==
    DispatchDone =>
        /\ Len(sub_log) = Len(sub_queries)
        /\ Len(sub_results) = Len(sub_queries)
        /\ \A i \in 1..Len(sub_queries) :
              /\ sub_log[i].query = sub_queries[i]
              /\ sub_log[i].fault => IsErrorMarker(sub_results[i])
              /\ ~sub_log[i].fault => sub_results[i] = sub_log[i].response
        /\ pc \in {"loop", "returned"}
        /\ user_message[1] = Lit("Parallel sub-LLM results:")
        /\ \A i \in 1..Len(sub_results) :
              \E j \in 1..Len(user_message) :
                 SubSeq(user_message, j, j + Len(sub_results[i]) - 1) = sub_results[i]

\* C5 (amended): as above, but the slot of a sub-call that returned an empty
\* response holds the "<no response>" placeholder.
C5_SlotsHoldResponsesOrPlaceholder ==
    /\ pc = "sub" => Len(sub_results) = Len(sub_log)
    /\ DispatchDone =>
        /\ Len(sub_log) = Len(sub_queries)
        /\ Len(sub_results) = Len(sub_queries)
        /\ \A i \in 1..Len(sub_queries) :
              /\ sub_log[i].query = sub_queries[i]
              /\ sub_log[i].fault => IsErrorMarker(sub_results[i])
              /\ (~sub_log[i].fault /\ sub_log[i].response # <<>>) =>
                    sub_results[i] = sub_log[i].response
              /\ (~sub_log[i].fault /\ sub_log[i].response = <<>>) =>
                    sub_results[i] = NoResponseMarker
        /\ pc \in {"loop", "returned"}
        /\ user_message[1] = Lit("Parallel sub-LLM results:")
        /\ \A i \in 1..Len(sub_results) :
              \E j \in 1..Len(user_message) :
                 SubSeq(user_message, j, j + Len(sub_results[i]) - 1) = sub_results[i]

\* C5 witness: two prompts were dispatched, the first sub-call raised and the
\* second returned text.
C5_Witness ==
    /\ DispatchDone
    /\ Len(sub_queries) = 2 /\ sub_queries[1] # sub_queries[2]
    /\ Len(sub_log) = 2
    /\ sub_log[1].fault
    /\ ~sub_log[2].fault /\ sub_log[2].response # <<>>

\* C6: a root call that raises never ends the loop by itself: the next prompt
\* is the error message and the loop goes to its next pass, or to the "did not
\* converge" end when that was the last pass; a FINAL response after a fault
\* still converges.
C6_RootFaultAbsorbed ==
    /\ [][(observed'.root_faults = observed.root_faults + 1) =>
            /\ user_message'[1] = Lit("Error occurred: ")
            /\ user_message'[2] = Lit("boom")
            /\ iteration' = iteration + 1
            /\ rlm_engine'.stats.iterations = rlm_engine.stats.iterations + 1
            /\ IF iteration + 1 < max_iterations
               THEN pc' = "loop" /\ report' = report
               ELSE pc' = "returned" /\ report'.head = NoConvergenceHead]_vars
    /\ []((observed.root_faults > 0 /\ last.has_final) =>
            (pc = "returned" /\ report.head = ResultHead))

\* C6 witness: the run converged after a root call had raised.
C6_Witness ==
    /\ pc = "returned" /\ observed.root_faults > 0 /\ last.has_final
    /\ report.head = ResultHead

\* the source of the current call is absent or unreachable
SourceMissing == request.cli_tool /\ ~Extract(request.source).ok

C8_ReportHasStatistics ==
    (pc = "returned" /\ request.entered) => Len(report.stats) = 1

\* C9 (as claimed): the counters a call reports count only that call's own
\* invocations, so root calls = iterations at every return.
C9_CountersPerInvocation ==
    (pc = "returned" /\ request.entered /\ Len(report.stats) = 1) =>
        /\ report.stats[1].root_calls = report.stats[1].iterations
        /\ report.stats[1].root_calls = observed.root
        /\ report.stats[1].sub_calls = observed.sub

\* C10: after an empty or white-space response the same prompt is sent again,
\* the iteration and root-call counters have advanced by one, and there is no
\* sandbox run, no sub-call and no error prompt.
C10_EmptyResponseRepeatsPrompt ==
    [][(RootStep /\ last'.ret = "text" /\ last'.blank) =>
          /\ user_message' = user_message
          /\ iteration' = iteration + 1
          /\ rlm_engine'.stats.iterations = rlm_engine.stats.iterations + 1
          /\ rlm_engine'.stats.root_calls = rlm_engine.stats.root_calls + 1
          /\ rlm_engine'.stats.sub_calls = rlm_engine.stats.sub_calls
          /\ observed'.exec = observed.exec
          /\ observed'.sub = observed.sub
          /\ repl_env' = repl_env
          /\ pc' # "sub"
          /\ iteration + 1 < max_iterations => pc' = "loop"]_vars

\* C10 witness: a white-space response was received and the loop is about to
\* send its prompt again.
C10_Witness ==
    /\ pc = "loop" /\ last.ret = "text" /\ last.blank /\ iteration > 0
    /\ user_message = InitialPrompt

\* the step belongs to one run of the loop of completion
LoopStep == pc \in {"loop", "sub"}

\* the step ran a fenced block in the sandbox
SandboxStep == RootStep /\ last'.ret = "text" /\ last'.acted = "code"

\* what each block binds x to, given what x was bound to
BoundAfter(code, x) ==
    CASE code = "set1"    -> "1"
      [] code = "setfail" -> "2"
      [] OTHER            -> x

\* C15: a sandbox variable keeps the value a block bound it to, also a block
\* that raised afterwards, until a later block binds it again: steps of the
\* loop that run no block (empty response, text, sub-queries, a fault of the
\* callable) leave it alone, and a later print(x) shows that value.
C15_VariablesPersist ==
    [][LoopStep =>
          IF SandboxStep
          THEN /\ repl_env'.x = BoundAfter(last'.code, repl_env.x)
               /\ (last'.code = "show" /\ repl_env.x # Unbound) =>
                      /\ Len(user_message') = 3
                      /\ user_message'[2] = Printed(repl_env.x)
          ELSE repl_env' = repl_env]_vars

\* C15 witness: the block of the first iteration bound x to 2 and raised; the
\* block of the second iteration printed x and 2 came out.
C15_Witness ==
    /\ observed.exec = 2 /\ last.acted = "code" /\ last.code = "show"
    /\ repl_env.x = "2"
    /\ Len(user_message) = 3 /\ user_message[2] = Printed("2")

\* the text a sandbox run of each block returns, given what x is bound to
SandboxText(code, x) ==
    CASE code = "set1" ->
           <<Lit("<code executed successfully, no output>")>>
      [] code = "show" /\ x # Unbound ->
           <<Printed(x)>>
      [] code = "show" /\ x = Unbound ->
           <<Lit("<execution error: "), Lit("name 'x' is not defined"), Lit(">")>>
      [] code = "setfail" ->
           <<Lit("<execution error: "), Lit("raised"), Lit(">")>>
      [] OTHER -> <<>>

\* C16: a sandbox run never raises into the loop and returns a non-empty
\* text: the fault description, the captured output, or the "no output"
\* sentinel; the loop goes on with that text framed as the next prompt, also
\* after a block that raised.
C16_SandboxReturnsText ==
    [][SandboxStep =>
          /\ SandboxText(last'.code, repl_env.x) # <<>>
          /\ user_message' =
                <<Lit("REPL output from your code:")>>
                \o SandboxText(last'.code, repl_env.x)
                \o <<Lit("Continue your analysis. Remember to use FINAL(answer) when done.")>>
          /\ iteration' = iteration + 1
          /\ pc' \in {"loop", "returned"}
          /\ iteration + 1 < max_iterations => pc' = "loop"
          /\ pc' = "returned" => report'.head = NoConvergenceHead]_vars

\* C16 witness: a block raised and the loop is about to send the fault
\* description as its next prompt.
C16_Witness ==
    /\ pc = "loop" /\ last.acted = "code" /\ last.code = "setfail"
    /\ Len(user_message) = 5 /\ user_message[2] = Lit("<execution error: ")

\* C17 (as claimed): the root token estimate grows by the length of every
\* text a root call returns, the sub token estimate is the sum of the lengths
\* of the sub-call responses, and the total is their sum.
C17_TokenEstimates ==
    [][/\ (RootStep /\ last'.ret = "text") =>
             rlm_engine'.stats.root_tokens = rlm_engine.stats.root_tokens + last'.len
       /\ rlm_engine'.stats.sub_tokens = observed'.sub_len
       /\ to_dict(rlm_engine'.stats).total_tokens =
             rlm_engine'.stats.root_tokens + rlm_engine'.stats.sub_tokens]_vars

\* C18 (as claimed): the answer of a converged run is the argument of the
\* FINAL call that stands first in the response, whichever form it has.
C18_FirstFinalWins ==
    (pc = "returned" /\ last.ret = "text" /\ last.acted = "final") =>
        report.body = last.first_final

\* the backend got text out of the file: it is installed, nothing raised and
\* some page holds more than white space
Yields(ran) ==
    /\ ran # <<>>
    /\ ran[1].imported /\ ran[1].opened
    /\ \A i \in 1..Len(ran[1].pages) : ~ran[1].pages[i].fault
    /\ \E i \in 1..Len(ran[1].pages) : ran[1].pages[i].text \notin {<<>>, <<Blank>>}

\* C14: for a file that exists, extraction runs PyMuPDF, then PyPDF2, then the
\* placeholder, in that order, each only when every one before it yielded no
\* text; it raises nothing and the content returned is never empty; when
\* neither backend yields text the content is the "could not extract" notice.
C14_ExtractionFallback ==
    /\ extractor.pc = "raised" => extractor.pdf_path \notin ExistingFiles
    /\ extractor.pc = "returned" =>
          /\ extractor.document.content # <<>>
          /\ extractor.tried \in {<<"pymupdf">>, <<"pymupdf", "pypdf2">>,
                                   <<"pymupdf", "pypdf2", "basic">>}
          /\ Len(extractor.tried) = 1 <=> Yields(extractor.fitz)
          /\ Len(extractor.tried) = 2 <=>
                (~Yields(extractor.fitz) /\ Yields(extractor.pypdf2))
          /\ Len(extractor.tried) = 3 <=>
                (~Yields(extractor.fitz) /\ ~Yields(extractor.pypdf2))
          /\ Len(extractor.tried) = 3 =>
                /\ extractor.document.content[1] = Lit("[Could not extract text from ")
                /\ extractor.document.content[2] = Lit(extractor.pdf_path)
          /\ Len(extractor.tried) < 3 =>
                LET ran == IF Len(extractor.tried) = 1
                           THEN extractor.fitz[1] ELSE extractor.pypdf2[1]
                    first == Min({i \in 1..Len(ran.pages) :
                                    ran.pages[i].text \notin {<<>>, <<Blank>>}})
                IN  /\ extractor.document.content[1] =
                          Lit(<<"--- Page 1 ---", "--- Page 2 ---",
                                "--- Page 3 ---">>[first])
                    /\ extractor.document.content[2] = ran.pages[first].text[1]

\* C14 witness: PyMuPDF is not installed, PyPDF2 found only blank pages, and
\* the document returned holds the notice.
C14_Witness ==
    /\ extractor.pc = "returned"
    /\ extractor.tried = <<"pymupdf", "pypdf2", "basic">>
    /\ ~extractor.fitz[1].imported
    /\ extractor.pypdf2[1].opened /\ Len(extractor.pypdf2[1].pages) = 2
    /\ extractor.document.content[1] = Lit("[Could not extract text from ")

\* ceil(a / b)
CeilDiv(a, b) == (a + b - 1) \div b

\* the processor is one the chunking claims speak of
OverlapBelowSize == 0 <= chunker.overlap /\ chunker.overlap < chunker.chunk_size

\* the call went through _chunk_by_size and has returned
SizeSplitDone == chunker.pc = "done" /\ Len(chunker.windows) > 0

\* C11 (as claimed): with 0 <= overlap < chunk_size the size-based split takes
\* at most ceil(len(text) / (chunk_size - overlap)) window passes, snapped
\* windows included.
C11_WindowStepsBounded ==
    OverlapBelowSize =>
        chunker.steps <= CeilDiv(Len(chunker.content),
                                 chunker.chunk_size - chunker.overlap)

\* the spans of the chunks a size-based split returned
Span(chunk) == [start |-> chunk.metadata.char_start, end |-> chunk.metadata.char_end]

\* the offset lies in one of the spans
Covered(p, spans) ==
    \E k \in 1..Len(spans) : spans[k].start <= p /\ p < spans[k].end

\* C12 (as claimed): after a size-based split of a non-empty text the spans
\* of the chunks returned cover every offset of the text, and each chunk's
\* span starts `overlap` before the end of the span of the chunk before it.
C12_ChunkSpansCover ==
    SizeSplitDone =>
        LET r == chunker.result IN
        /\ \A p \in 0..(Len(chunker.content) - 1) :
              Covered(p, [j \in 1..Len(r) |-> Span(r[j])])
        /\ \A j \in 2..Len(r) :
              r[j].metadata.char_start = r[j - 1].metadata.char_end - chunker.overlap

\* the number of windows among the first k that became chunks
KeptUpTo(k) == Cardinality({i \in 1..k : chunker.windows[i].kept})

\* C12 (amended): the windows walked, kept or not, chain: the first starts at
\* 0 and each next one starts `overlap` before the end of the one before it;
\* they cover every offset below an end reached so far, and the whole text
\* when the walk has ended; the chunks are the windows whose trimmed slice is
\* longer than 100 characters, in order and with the window's span.
C12_WindowSpansCover ==
    LET w == chunker.windows IN
    Len(w) > 0 =>
        /\ w[1].start = 0
        /\ \A k \in 2..Len(w) : w[k].start = w[k - 1].end - chunker.overlap
        /\ \A p \in 0..(Len(chunker.content) - 1) :
              (chunker.pc = "done" \/ \E k \in 1..Len(w) : p < w[k].end) =>
                  Covered(p, w)
        /\ Len(chunker.chunks) = KeptUpTo(Len(w))
        /\ \A k \in 1..Len(w) :
              /\ w[k].kept <=> w[k].trimmed > 100
              /\ w[k].kept =>
                    Span(chunker.chunks[KeptUpTo(k)]) = [start |-> w[k].start,
                                                         end |-> w[k].end]
        /\ chunker.pc = "done" => chunker.result = chunker.chunks

\* C12 witness: a size-based split that walked three or more windows, dropped
\* one of them and returned chunks.
C12_Witness ==
    /\ SizeSplitDone
    /\ Len(chunker.windows) >= 3
    /\ \E k \in 1..Len(chunker.windows) : ~chunker.windows[k].kept
    /\ Len(chunker.result) >= 2
    /\ chunker.overlap > 0

\* C13 (as claimed): in both splits a slice becomes a chunk exactly when its
\* trimmed content has 100 characters or more, and no chunk returned is
\* shorter than 100.
C13_KeptFrom100 ==
    /\ \A i \in 1..Len(chunker.slices) :
          chunker.slices[i].kept <=> chunker.slices[i].trimmed >= 100
    /\ \A k \in 1..Len(chunker.windows) :
          chunker.windows[k].kept <=> chunker.windows[k].trimmed >= 100
    /\ \A j \in 1..Len(chunker.result) : Len(chunker.result[j].content) >= 100

\* the chunks all have this method
AllOf(chunks, method) ==
    \A j \in 1..Len(chunks) : chunks[j].metadata.method = method

\* C19: chunk_document returns either two or more chunks that are all section
\* chunks, found between more than 2 boundaries, or size chunks only; when the
\* section pass keeps 0 or 1 slice the result is the size-based split; an
\* empty text gives no chunks.
C19_UniformResult ==
    chunker.pc = "done" =>
        LET r == chunker.result
            kept == {i \in 1..Len(chunker.slices) : chunker.slices[i].kept}
        IN  /\ \/ /\ Len(r) >= 2 /\ AllOf(r, "section")
                  /\ Len(chunker.slices) + 1 > 2
                  /\ Len(r) = Cardinality(kept)
               \/ AllOf(r, "size")
            /\ Cardinality(kept) <= 1 =>
                  /\ AllOf(r, "size")
                  /\ r = chunker.chunks
                  /\ Len(r) = KeptUpTo(Len(chunker.windows))
            /\ chunker.content = <<>> => r = <<>>

\* C19 witness: a document with headers came back as section chunks.
C19_Witness ==
    /\ chunker.pc = "done"
    /\ Len(chunker.result) >= 2
    /\ AllOf(chunker.result, "section")
    /\ chunker.windows = <<>>

\* C20 (as claimed): with 0 <= overlap < chunk_size no window starts below 0
\* and every window starts after the one before it, snapped or not.
C20_StartIncreases ==
    OverlapBelowSize =>
        LET w == chunker.windows IN
        /\ chunker.start >= 0
        /\ \A k \in 1..Len(w) : w[k].start >= 0
        /\ \A k \in 2..Len(w) : w[k].start > w[k - 1].start
        /\ Len(w) > 0 => chunker.start > w[Len(w)].start

\* the step is one sub-call of a dispatch
SubStep == pc = "sub"

\* C21: a root call never moves the sub-call counter by itself; the dispatch
\* of the n llm_query calls of a response invokes the callable n times,
\* raising and empty sub-calls included, and then the counter has grown by n;
\* the total of calls is root calls plus sub-calls, also in the report.
C21_SubCallCounter ==
    [][/\ RootStep =>
             /\ rlm_engine'.stats.sub_calls = rlm_engine.stats.sub_calls
             /\ observed'.sub = observed.sub
             /\ pc' = "sub" <=> (last'.ret = "text" /\ last'.acted = "sub")
             /\ pc' = "sub" => last'.n_queries > 0
       /\ SubStep =>
             /\ observed'.sub = observed.sub + 1
             /\ Len(sub_log') = Len(sub_log) + 1
             /\ Len(sub_log') <= last.n_queries
             /\ IF Len(sub_log') = last.n_queries
                THEN /\ pc' # "sub"
                     /\ rlm_engine'.stats.sub_calls =
                           rlm_engine.stats.sub_calls + last.n_queries
                ELSE /\ pc' = "sub"
                     /\ rlm_engine'.stats.sub_calls = rlm_engine.stats.sub_calls
       /\ to_dict(rlm_engine'.stats).total_calls =
             rlm_engine'.stats.root_calls + rlm_engine'.stats.sub_calls
       /\ Len(report'.stats) = 1 =>
             report'.stats[1].total_calls =
                report'.stats[1].root_calls + report'.stats[1].sub_calls]_vars

\* C21 witness: a dispatch of two queries is over, one sub-call raised, the
\* other returned nothing, and the counter stands at 2.
C21_Witness ==
    /\ last.acted = "sub" /\ pc # "sub" /\ last.n_queries = 2
    /\ Len(sub_log) = 2
    /\ sub_log[1].fault
    /\ ~sub_log[2].fault /\ sub_log[2].response = <<>>
    /\ observed.sub = 2
    /\ rlm_engine.stats.sub_calls = 2

\* what stands for sub-call i in the next prompt
SlotText(entry) ==
    IF entry.fault THEN <<Lit("<error: "), Lit("boom"), Lit(">")>>
    ELSE IF entry.response = <<>> THEN NoResponseMarker
    ELSE entry.response

\* the sub-calls of a dispatch from the i-th on, each under its label
RECURSIVE Labelled(_, _)
Labelled(log, i) ==
    IF i > Len(log) THEN <<>>
    ELSE <<Lit(<<"Sub-query 1 result:", "Sub-query 2 result:">>[i])>>
         \o SlotText(log[i]) \o Labelled(log, i + 1)

\* C22: a sub-call is a leaf. Whatever its response holds (a FINAL call, a
\* code block, an llm_query call), the step that receives it does not end
\* the run with an answer, runs nothing in the sandbox and adds no query to
\* the dispatch; the response only stands under its label in the next root
\* prompt; and no root call is made before the last sub-call of the dispatch
\* is over.
C22_SubCallsAreLeaves ==
    [][/\ SubStep =>
             /\ observed'.root = observed.root
             /\ observed'.exec = observed.exec
             /\ repl_env' = repl_env
             /\ sub_queries' = sub_queries
             /\ last' = last
             /\ report'.head # ResultHead
             /\ pc' = "sub" <=> Len(sub_log') < Len(sub_queries)
             /\ pc' = "sub" => (user_message' = user_message /\ iteration' = iteration)
             /\ pc' # "sub" =>
                   /\ iteration' = iteration + 1
                   /\ pc' = IF iteration + 1 < max_iterations THEN "loop" ELSE "returned"
                   /\ user_message' =
                         <<Lit("Parallel sub-LLM results:")>>
                         \o Labelled(sub_log', 1)
                         \o <<Lit("Use these results to continue your analysis. Call FINAL(answer) when ready.")>>
       /\ RootStep => (pc = "loop" /\ (sub_log' = <<>>))]_vars

\* C22 witness: a sub-call returned a text with a FINAL call, a code block
\* and an llm_query call; the dispatch is over, the loop is at its next root
\* call, nothing ran in the sandbox and the text is in the prompt.
C22_Witness ==
    /\ pc = "loop" /\ last.acted = "sub" /\ last.n_queries = 1
    /\ Len(sub_log) = 1 /\ ~sub_log[1].fault
    /\ \E i \in 1..Len(sub_log[1].response) : sub_log[1].response[i].k = "final"
    /\ \E i \in 1..Len(sub_log[1].response) : sub_log[1].response[i].k = "code"
    /\ \E i \in 1..Len(sub_log[1].response) : sub_log[1].response[i].k = "query"
    /\ observed.exec = 0 /\ observed.sub = 1 /\ repl_env = _init_repl
    /\ \E i \in 1..Len(user_message) : user_message[i] = FinalPlain("a")

\* C23 (as claimed): a sandbox run, whether its block succeeds or raises,
\* leaves sys.stdout the stream it was before the run.
C23_StdoutRestored ==
    [][SandboxStep => sys_stdout' = sys_stdout]_vars

\* the call of caller c has ended
Ended(c) == remote.calls[c].pc \in {"returned", "raised"}

\* C24 (as claimed): of extract_from_url calls that run at the same time, each
\* returns a document made from the bytes it fetched itself, none raises for
\* another reason than its own fetch, and when the calls have ended the
\* temporary file is gone.
C24_RemoteIsolated ==
    remote.pc = "run" =>
        /\ \A c \in Callers :
              /\ remote.calls[c].pc = "returned" =>
                    /\ Len(remote.calls[c].document.content) = 2
                    /\ remote.calls[c].document.content[2] =
                          Seg("text", "", remote.calls[c].fetched)
              /\ remote.calls[c].pc = "raised" =>
                    (remote.calls[c].exc = "HTTPError" /\ remote.calls[c].fetched = "")
        /\ (\A c \in Callers : Ended(c)) => remote.file = NoFile

====
